---- MODULE Spec2Model ----
\* Ownership handles (OwnRef) over externally supplied storage: plain slots,
\* own_ref! temporaries and pinned cells (ManualOption) with a present-flag.
\* The model tracks, for every value written into a cell, who ran its
\* destructor and how often.
EXTENDS Integers, Sequences, FiniteSets, TLC

\* ------------------------------------------------------------------ bounds
\* number of times one cell may be filled in one behaviour
MaxFills == 2
\* largest number of elements of an array
MaxLen == 2

\* ------------------------------------------------------------------ types
\* Held types of the model: a String has drop glue, an i32 has none, and
\* "Closure" is the type of a closure |a| { drop(guard); .. } that captures
\* a guard with drop glue, "Array" an array [String; N] with 1 <= N <= MaxLen.
\* "Bool" is only ever a downcast candidate.
Types == {"String", "I32", "Closure", "Array"}
\* types with drop glue and an alignment of 1, 2 and 16 bytes, as
\* struct(u8), struct(u16) and a #[repr(align(16))] struct that implement
\* Drop; the model holds them in pinned cells only
AlignTypes == {"Drop1", "Drop2", "Drop16"}
HeldTypes == Types \cup AlignTypes
DynAny == "dynAny"
DynFnOwn == "dynFnOwn"
DynTypes == {DynAny, DynFnOwn}
\* the slice type [String]
Slice == "slice"
UnsizedTypes == DynTypes \cup {Slice}
CandidateTypes == Types \cup {"Bool"}
StaticTypes == HeldTypes \cup UnsizedTypes

\* T : Unsize<dst>: every ('static) type is Any, only the closure is FnOwn,
\* only the array is a slice
CanUnsize(ty, dst) ==
    \/ dst = DynAny
    \/ (dst = DynFnOwn /\ ty = "Closure")
    \/ (dst = Slice /\ ty = "Array")

\* arities.rs, feed_all!: the identifier lists handed to the callback macro:
\* nothing, then _0, then _1 _0, ... up to _11 _10 .. _0, the longest, which
\* has FeedAllLongest identifiers
FeedAllLongest == 12
Ident(n) == "_" \o ToString(n)
IdentList(n) == [i \in 1..n |-> Ident(n - i)]
FeedAll == {IdentList(n) : n \in 0..FeedAllLongest}

\* arities.rs, max!: the largest arity the docs of call_ownref_N announce
max == 11

\* fn_own.rs, impls!: FnOwn<($($I, )*)> is implemented for the closures that
\* take as many arguments as the list has identifiers
Arities == {Len(l) : l \in FeedAll}
\* closures of every arity are made by own_ref!; the closure written into a
\* declared cell is the one of tests.rs, `storage.holding(|| ())`
CellClosureArity == 0

\* core::mem::needs_drop::<T>() for a sized T
NeedsDrop(ty) == ty \in {"String", "Closure", "Array", Slice} \cup AlignTypes

\* core::mem::needs_drop::<T>() for the static type of a handle; it is
\* true of every trait object
NeedsDropStatic(sty) == IF sty \in DynTypes THEN TRUE ELSE NeedsDrop(sty)

\* core::mem::align_of::<T>()
AlignOf(ty) == CASE ty \in {"String", "Closure", "Array", Slice} -> 8
                 [] ty = "I32" -> 4
                 [] ty = "Drop2" -> 2
                 [] ty = "Drop16" -> 16
                 [] OTHER -> 1

\* ------------------------------------------------------------------ cells
\* "s" is a Slot declared alone or the first cell of the tuple slots()
\* yields, "s2" the second cell of that tuple
Slots == {"s", "s2"}
Temps == {"t"}
Pinned == {"p"}
\* the Slot that OwnRef::with makes for the duration of one call
Withs == {"w"}
\* the ManualOption that OwnRef::with_pinned makes (slot!()) for the
\* duration of one call
PinWiths == {"q"}
\* the cells that are a ManualOption: a present-flag next to the value
Flagged == Pinned \cup PinWiths
Cells == Slots \cup Temps \cup Pinned \cup Withs \cup PinWiths

\* slots::<(Slot<A>, Slot<B>)>(): the cells of TUPLE_SLOTS
TupleSlots == {"s", "s2"}
\* the cells a program declares: one of each kind alone, a slot next to
\* a pinned cell, or the tuple of slots()
Scenarios == {{"s"}, {"t"}, {"p"}, {"w"}, {"q"}, {"s", "p"}, TupleSlots}
\* the type both cells hold when a program declares a slot and a pinned cell
PairType == "String"
\* the types A and B of the cells of a tuple of slots
BatchTypes == {"String", "I32"}

\* where each cell lives on the stack (any layout with disjoint cells does)
BaseAddr(c) == CASE c = "s" -> 64
                 [] c = "s2" -> 96
                 [] c = "t" -> 128
                 [] c = "p" -> 192
                 [] c = "w" -> 256
                 [] c = "q" -> 320

VARIABLES
    cell,   \* cell[c] = [st, ty, arity, len, val, is_some]: the backing
            \* storage; val is the number of the fill whose bytes it holds (0:
            \* uninitialized), arity the number of arguments of a closure
            \* type, len the number of elements of an array type
    h,      \* h[c] = [st, ty, d, ptr, len]: the handle of the last fill of c;
            \* len is the metadata of a slice pointer
    vals,   \* vals[c][k] = [st, runs, v]: the value of the k-th fill of c,
            \* who ran its destructor, in order, and what it contains
    last    \* the last operation: [op, c, arg, res, n, obs, args] (n: a fill
            \* number or an address, obs: what the operation found on its
            \* way, args: the arguments of a call)

vars == <<cell, h, vals, last>>

\* #[repr(C)] struct ManualOption { is_some: bool, value: MU<T>, .. }
\* #[repr(C)] struct ManualOption<T> { is_some: bool, value: MU<T>, .. }:
\* the first field is at offset 0 and each later field at the first multiple
\* of its alignment past the end of the field before it
SizeOfBool == 1
RoundUp(n, a) == ((n + a - 1) \div a) * a
OffsetOfIsSome == 0

OffsetOfValue(ty) == RoundUp(OffsetOfIsSome + SizeOfBool, AlignOf(ty))

FlagAddr(c) == BaseAddr(c) + OffsetOfIsSome
ValueOffset(c, ty) == IF c \in Flagged THEN OffsetOfValue(ty) ELSE 0
ValueAddr(c) == BaseAddr(c) + ValueOffset(c, cell[c].ty)

\* ------------------------------------------------------------ destructors
\* how often a cell may be filled: a program that declares several cells,
\* or holds a closure that takes arguments or a value of one of AlignTypes,
\* fills each cell once
FillBound ==
    IF \/ Cardinality({c \in Cells : cell[c].st # "unused"}) > 1
       \/ \E c \in Cells : cell[c].arity > CellClosureArity \/ cell[c].ty \in AlignTypes
    THEN 1 ELSE MaxFills
Fills(c) == Cardinality({k \in 1..MaxFills : vals[c][k].st # "unborn"})
DropCount(c, k) == Len(vals[c][k].runs)
RuntimeType(c) == IF cell[c].val = 0 THEN "uninit" ELSE cell[c].ty
HasDtor(c) == NeedsDrop(cell[c].ty)

\* ptr::drop_in_place::<T> on the bytes of the k-th fill of c: the value's
\* destructor runs if its type has one
DropInPlace(vs, c, k, by) ==
    IF k = 0 THEN vs
    ELSE [vs EXCEPT ![c][k].st = "dead",
                    ![c][k].runs = IF NeedsDrop(cell[c].ty) THEN Append(@, by) ELSE @]

NoHandle == [st |-> "none", ty |-> "-", d |-> "No", ptr |-> 0, len |-> 0]
\* what a value may contain: as it was passed in, or changed in place
Contents == {"v0", "v1"}
NoVal == [st |-> "unborn", runs |-> << >>, v |-> "-"]
NewVal == [st |-> "held", runs |-> << >>, v |-> "v0"]
\* the value inside a ManualOption::Some(value): the cell itself owns it
SomeVal == [st |-> "stored", runs |-> << >>, v |-> "v0"]
\* an Option<T>: None, or Some of a value with these contents
Options == {"None"} \cup Contents
\* From<Option<T>> for ManualOption<T>: Some(v) => Self::Some(v), None =>
\* Self::None (whose value field is uninitialized)
ManualOptionFrom(o) ==
    IF o = "None" THEN [is_some |-> FALSE, value |-> "uninit"]
    ELSE [is_some |-> TRUE, value |-> o]

\* From<ManualOption<T>> for Option<T>: o.is_some.then(|| o.value.as_ptr().read())
OptionFrom(mo) == IF mo.is_some THEN mo.value ELSE "None"
\* how the value a cell holds is owned ("-": the cell was never filled)
HeldAs(c) == IF cell[c].val = 0 THEN "-" ELSE vals[c][cell[c].val].st
Op(op, c, arg, res, n) ==
    [op |-> op, c |-> c, arg |-> arg, res |-> res, n |-> n,
     obs |-> "-", args |-> << >>]

Init ==
    /\ \E used \in Scenarios, t \in HeldTypes, t2 \in HeldTypes,
          ar \in Arities, n \in 1..MaxLen, opt \in Options :
      LET ty == [c \in Cells |-> IF c = "s2" THEN t2 ELSE t]
          \* a pinned cell declared alone is made from an Option: None (as
          \* slot!() is) or Some(value)
          mo == ManualOptionFrom(opt)
          built == IF mo.is_some THEN Pinned ELSE {}
      IN
        /\ mo.is_some => used = Pinned
        /\ last = Op("init", "-", "-", IF Pinned \subseteq used THEN opt ELSE "-", 0)
        /\ IF used = TupleSlots THEN {t, t2} \subseteq BatchTypes ELSE t2 = t
        /\ (Cardinality(used) > 1 /\ used # TupleSlots) => t = PairType
        /\ t \in AlignTypes => used \subseteq Flagged
        /\ cell = [c \in Cells |->
                  [st |-> IF c \notin used THEN "unused"
                          ELSE IF c \in Temps \cup Withs \cup PinWiths THEN "none" ELSE "alive",
                   ty |-> IF c \in used THEN ty[c] ELSE "-",
                   arity |-> IF c \in used /\ ty[c] = "Closure"
                             THEN IF c \in Temps THEN ar ELSE CellClosureArity
                             ELSE 0,
                   len |-> IF c \in used /\ ty[c] = "Array" THEN n ELSE 0,
                   val |-> IF c \in built THEN 1 ELSE 0,
                   is_some |-> c \in built]]
        /\ vals = [c \in Cells |-> [k \in 1..MaxFills |->
                     IF c \in built /\ k = 1
                     THEN [SomeVal EXCEPT !.v = mo.value] ELSE NoVal]]
    /\ h = [c \in Cells |-> NoHandle]

\* OwnRef::from_raw: the handle is the pointer, armed (a thin pointer here;
\* Unsized puts the metadata of a wide one)
from_raw(ptr, sty, d) == [st |-> "live", ty |-> sty, d |-> d, ptr |-> ptr, len |-> 0]

\* the metadata of the pointer a *mut [T; N] coerces to: N
SliceLen(c) == cell[c].len

\* the unsizing coercion of the pointer in a handle record to its type
Unsized(hh, c) == [hh EXCEPT !.len = IF hh.ty = Slice THEN SliceLen(c) ELSE 0]

\* variant: the slot is assigned through a typed place, which drops the
\* bytes it held before
SlotHolding_assign(c) ==
    /\ c \in Slots
    /\ cell[c].st = "alive"
    /\ h[c].st # "live"
    /\ Fills(c) < FillBound
    /\ LET k == Fills(c) + 1 IN
        /\ vals' = [DropInPlace(vals, c, cell[c].val, "refill") EXCEPT ![c][k] = NewVal]
        /\ cell' = [cell EXCEPT ![c].val = k]
        /\ h' = [h EXCEPT ![c] = from_raw(ValueAddr(c), cell[c].ty, "No")]
    /\ last' = Op("holding", c, "-", "-", 0)

\* variant: holding takes the slot by shared reference, so the slot is not
\* borrowed for the life of the handle it returns
SlotHolding_shared(c) ==
    /\ c \in Slots
    /\ cell[c].st = "alive"
    /\ Fills(c) < FillBound
    /\ LET k == Fills(c) + 1 IN
        /\ vals' = [vals EXCEPT ![c][k] = NewVal]
        /\ cell' = [cell EXCEPT ![c].val = k]
        /\ h' = [h EXCEPT ![c] = from_raw(ValueAddr(c), cell[c].ty, "No")]
    /\ last' = Op("holding", c, "-", "-", 0)

\* variant: the cells of a tuple of slots are one and the same storage, so
\* a write into one of them is a write into each
SlotHolding_oneStorage(c) ==
    /\ c \in Slots
    /\ cell[c].st = "alive"
    /\ h[c].st # "live"
    /\ Fills(c) < FillBound
    /\ LET k == Fills(c) + 1
           hit == {c2 \in Slots : cell[c2].st = "alive"}
       IN
        /\ vals' = [c2 \in Cells |->
                     IF c2 \in hit THEN [vals[c2] EXCEPT ![k] = NewVal] ELSE vals[c2]]
        /\ cell' = [c2 \in Cells |->
                     IF c2 \in hit THEN [cell[c2] EXCEPT !.val = k] ELSE cell[c2]]
        /\ h' = [h EXCEPT ![c] = from_raw(ValueAddr(c), cell[c].ty, "No")]
    /\ last' = Op("holding", c, "-", "-", 0)

\* Slot::holding / MaybeUninitExt::holding: MU::write overwrites the bytes
\* without looking at the old ones
SlotHolding(c) ==
    /\ c \in Slots
    /\ cell[c].st = "alive"
    /\ h[c].st # "live"
    /\ Fills(c) < FillBound
    /\ LET k == Fills(c) + 1 IN
        /\ vals' = [vals EXCEPT ![c][k] = NewVal]
        /\ cell' = [cell EXCEPT ![c].val = k]
        /\ h' = [h EXCEPT ![c] = from_raw(ValueAddr(c), cell[c].ty, "No")]
    /\ last' = Op("holding", c, "-", "-", 0)

\* own_ref!(value): a temporary HackMD { value: MD::new(value) } and a plain
\* handle to it; the expected type may unsize the pointer on the way
OwnRefMacro(c, sty) ==
    /\ c \in Temps
    /\ cell[c].st \in {"none", "gone"}
    /\ sty \in {cell[c].ty} \cup {dst \in UnsizedTypes : CanUnsize(cell[c].ty, dst)}
    /\ Fills(c) < FillBound
    /\ LET k == Fills(c) + 1 IN
        /\ vals' = [vals EXCEPT ![c][k] = NewVal]
        /\ cell' = [cell EXCEPT ![c].st = "alive", ![c].val = k]
        /\ h' = [h EXCEPT ![c] = Unsized(from_raw(ValueAddr(c), sty, "No"), c)]
    /\ last' = Op("own_ref", c, "-", "-", 0)

\* variant: the cell's destructor does not look at the flag
ManualOptionDropRuns_noflag(c) == NeedsDrop(cell[c].ty)

\* impl Drop for ManualOption: the condition under which it drops the value
ManualOptionDropRuns(c) == NeedsDrop(cell[c].ty) /\ cell[c].is_some

\* variant: the cell is not reset before the new value is written
PinHolding_noSet(c) ==
    /\ c \in Pinned
    /\ cell[c].st = "alive"
    /\ h[c].st # "live"
    /\ Fills(c) < FillBound
    /\ LET k == Fills(c) + 1 IN
        /\ vals' = [vals EXCEPT ![c][k] = NewVal]
        /\ cell' = [cell EXCEPT ![c].val = k, ![c].is_some = TRUE]
        /\ h' = [h EXCEPT ![c] = from_raw(ValueAddr(c), cell[c].ty, "Yes")]
    /\ last' = Op("pin_holding", c, HeldAs(c), "-", 0)

\* variant: the value is written before self.set(None), whose drop glue then
\* finds the new bytes in the value field
PinHolding_writeFirst(c) ==
    /\ c \in Pinned
    /\ cell[c].st = "alive"
    /\ h[c].st # "live"
    /\ Fills(c) < FillBound
    /\ LET k == Fills(c) + 1
           vs1 == [vals EXCEPT ![c][k] = NewVal]
       IN
        /\ vals' = IF ManualOptionDropRuns(c)
                   THEN DropInPlace(vs1, c, k, "refill")
                   ELSE vs1
        /\ cell' = [cell EXCEPT ![c].val = k, ![c].is_some = TRUE]
        /\ h' = [h EXCEPT ![c] = from_raw(ValueAddr(c), cell[c].ty, "Yes")]
    /\ last' = Op("pin_holding", c, HeldAs(c), "-", 0)

\* ManualOption::holding: self.set(None) drops the old ManualOption in place,
\* then the value is written, the flag set, and a flagged handle built on
\* the address of the value field
PinHolding(c) ==
    /\ c \in Pinned
    /\ cell[c].st = "alive"
    /\ h[c].st # "live"
    /\ Fills(c) < FillBound
    /\ LET vs1 == IF ManualOptionDropRuns(c)
                  THEN DropInPlace(vals, c, cell[c].val, "refill")
                  ELSE vals
           k == Fills(c) + 1
       IN
        /\ vals' = [vs1 EXCEPT ![c][k] = NewVal]
        /\ cell' = [cell EXCEPT ![c].val = k, ![c].is_some = TRUE]
        /\ h' = [h EXCEPT ![c] = from_raw(ValueAddr(c), cell[c].ty, "Yes")]
    /\ last' = Op("pin_holding", c, HeldAs(c), "-", 0)

\* core::mem::align_of_val(&*handle): read from the vtable for a trait object
AlignOfVal(c, sty) == IF sty \in DynTypes THEN AlignOf(RuntimeType(c)) ELSE AlignOf(sty)

\* variants: the tag is compared with DropFlags::No; the flag is taken to be
\* the byte before the value; the needs_drop test is inverted
DropClearsFlag_wrongTag(sty, d) == NeedsDropStatic(sty) /\ d = "No"
IsSomeAddr_byte(ptr, align) == ptr - 1
DropRunsDropInPlace_inverted(sty) == ~NeedsDropStatic(sty)

\* impl Drop for OwnRef: whether the flag is cleared, where the flag is taken
\* to be, and whether drop_in_place is called
DropClearsFlag(sty, d) == NeedsDropStatic(sty) /\ d = "Yes"
IsSomeAddr(ptr, align) == ptr - align
DropRunsDropInPlace(sty) == NeedsDropStatic(sty)

\* the write *is_some = false through the computed address
ClearFlagAt(cl, a) ==
    [c2 \in Cells |->
        IF c2 \in Flagged /\ cl[c2].st = "alive" /\ FlagAddr(c2) = a
        THEN [cl[c2] EXCEPT !.is_some = FALSE]
        ELSE cl[c2]]

\* where the write *is_some = false lands: in the is_some field of a
\* ManualOption ("flag"), or in whatever byte precedes a value that does not
\* live in one ("wild": a write outside the storage of the handle)
FlagWriteLands(cl, a) ==
    IF \E c2 \in Flagged : cl[c2].st = "alive" /\ FlagAddr(c2) = a
    THEN "flag" ELSE "wild"

\* what the drop of a handle does about the flag ("-": no write)
FlagWrite(c, hh) ==
    IF DropClearsFlag(hh.ty, hh.d)
    THEN FlagWriteLands(cell, IsSomeAddr(hh.ptr, AlignOfVal(c, hh.ty)))
    ELSE "-"

\* what drop_in_place finds in the present-flag of the cell of the value it
\* is about to destroy, in the storage cl of that moment ("-": the value
\* has no destructor to start)
FlagAtDtorStart(cl, c, sty) ==
    IF ~ (NeedsDropStatic(sty) /\ NeedsDrop(cell[c].ty)) THEN "-"
    ELSE IF c \notin Flagged THEN "no flag"
    ELSE IF cl[c].is_some THEN "set" ELSE "clear"

\* the number of array elements drop_in_place destroys through the handle:
\* those the metadata of a slice pointer counts, all of them for an array
\* known by its type or by the vtable of a trait object
ElemsDropped(c, hh) ==
    IF ~ DropRunsDropInPlace(hh.ty) THEN 0
    ELSE IF hh.ty = Slice THEN hh.len
    ELSE IF cell[c].ty = "Array" THEN cell[c].len
    ELSE 0

\* the initialized cells whose value field lies at address ptr
Pointee(ptr) ==
    {c \in Cells : cell[c].st = "alive" /\ cell[c].val # 0 /\ ValueAddr(c) = ptr}

\* the implementation a method call through the handle dispatches to: the
\* static type of a concrete handle, the vtable of the pointee for dyn
Dispatch(hh) ==
    IF hh.ty \in HeldTypes THEN hh.ty
    ELSE IF Pointee(hh.ptr) = {} THEN "dangling"
    ELSE RuntimeType(CHOOSE c \in Pointee(hh.ptr) : TRUE)

\* <OwnRef as Deref>::deref: the value the handle's pointer designates
Deref(hh) ==
    IF Pointee(hh.ptr) = {} THEN 0
    ELSE cell[CHOOSE c \in Pointee(hh.ptr) : TRUE].val

\* what a read through the handle's pointer finds
Read(hh) ==
    IF Pointee(hh.ptr) = {} THEN "dangling"
    ELSE LET pc == CHOOSE c \in Pointee(hh.ptr) : TRUE IN vals[pc][cell[pc].val].v

\* the contents drop_in_place hands to the value's destructor: what the
\* handle's pointer designates ("-": no destructor runs)
DtorSaw(c, hh) ==
    IF DropRunsDropInPlace(hh.ty) /\ NeedsDrop(cell[c].ty) THEN Read(hh) ELSE "-"

\* impl Drop for OwnRef (the handle goes out of scope or is drop()ped):
\* first the flag write, then drop_in_place, which starts the value's
\* destructor in the storage as the flag write left it
HandleDrop(c) ==
    /\ h[c].st = "live"
    /\ LET hh == h[c]
           align == AlignOfVal(c, hh.ty)
           cleared == IF DropClearsFlag(hh.ty, hh.d)
                      THEN ClearFlagAt(cell, IsSomeAddr(hh.ptr, align))
                      ELSE cell
       IN
        /\ cell' = cleared
        /\ vals' = IF DropRunsDropInPlace(hh.ty)
                   THEN DropInPlace(vals, c, cell[c].val, "handle")
                   ELSE [vals EXCEPT ![c][cell[c].val].st = "dead"]
        /\ last' = [Op("drop", c, FlagAtDtorStart(cleared, c, hh.ty), DtorSaw(c, hh),
                        ElemsDropped(c, hh)) EXCEPT !.obs = FlagWrite(c, hh)]
    /\ h' = [h EXCEPT ![c].st = "dropped"]

\* core::mem::forget(handle): no drop glue runs
Forget(c) ==
    /\ h[c].st = "live"
    /\ h' = [h EXCEPT ![c].st = "forgotten"]
    /\ vals' = [vals EXCEPT ![c][cell[c].val].st = "leaked"]
    /\ last' = Op("forget", c, "-", "-", 0)
    /\ UNCHANGED cell

\* OwnRef::deref_move: ptr::read out of ManuallyDrop::new(self)
DerefMove(c) ==
    /\ h[c].st = "live"
    /\ h[c].d = "No"
    /\ h[c].ty \in HeldTypes
    /\ h' = [h EXCEPT ![c].st = "consumed"]
    /\ vals' = [vals EXCEPT ![c][cell[c].val].st = "owned"]
    /\ last' = Op("deref_move", c, "-", vals[c][cell[c].val].v, cell[c].val)
    /\ UNCHANGED cell

\* OwnRef::into_inner: the same code as deref_move
IntoInner(c) ==
    /\ h[c].st = "live"
    /\ h[c].d = "No"
    /\ h[c].ty \in HeldTypes
    /\ h' = [h EXCEPT ![c].st = "consumed"]
    /\ vals' = [vals EXCEPT ![c][cell[c].val].st = "owned"]
    /\ last' = Op("into_inner", c, "-", vals[c][cell[c].val].v, cell[c].val)
    /\ UNCHANGED cell

\* the caller drops a value it extracted
DropOwned(c, k) ==
    /\ vals[c][k].st = "owned"
    /\ vals' = DropInPlace(vals, c, k, "owner")
    /\ last' = Op("drop_owned", c, "-", "-", k)
    /\ UNCHANGED <<cell, h>>

\* OwnRef::into_raw: transmute(self), the drop glue is disabled
into_raw(hh) == hh.ptr

\* variant: the pointer field is copied out and self is left to its drop
\* glue
IntoRaw_noTransmute(c) ==
    /\ h[c].st = "live"
    /\ h' = [h EXCEPT ![c].st = "raw"]
    /\ vals' = IF DropRunsDropInPlace(h[c].ty)
               THEN DropInPlace(vals, c, cell[c].val, "handle")
               ELSE [vals EXCEPT ![c][cell[c].val].st = "leaked"]
    /\ last' = Op("into_raw", c, "-", "-", h[c].ptr)
    /\ UNCHANGED cell

\* variant: the handle's flag write happens on the way out
IntoRaw_clearsFlag(c) ==
    /\ h[c].st = "live"
    /\ h' = [h EXCEPT ![c].st = "raw"]
    /\ vals' = [vals EXCEPT ![c][cell[c].val].st = "leaked"]
    /\ cell' = IF DropClearsFlag(h[c].ty, h[c].d)
               THEN ClearFlagAt(cell, IsSomeAddr(h[c].ptr, AlignOfVal(c, h[c].ty)))
               ELSE cell
    /\ last' = Op("into_raw", c, "-", "-", into_raw(h[c]))

\* handle.into_raw(): the caller is left with the raw pointer (kept in the
\* disarmed handle record) and nothing owns the value
IntoRaw(c) ==
    /\ h[c].st = "live"
    /\ h' = [h EXCEPT ![c].st = "raw"]
    /\ vals' = [vals EXCEPT ![c][cell[c].val].st = "leaked"]
    /\ last' = Op("into_raw", c, "-", "-", into_raw(h[c]))
    /\ UNCHANGED cell

\* the type-level enum DropFlags, and some other 'static type a caller may
\* instantiate D with
DropFlags == {"No", "Yes"}
OtherFlags == {"Unit"}

\* variant: the match has no default arm
FromRawPanics_noDefault(d) == FALSE

\* from_raw's check that D is one of No, Yes
FromRawPanics(d) == d \notin DropFlags

\* unsafe OwnRef::<T, D>::from_raw(ptr, lt) on the pointer of an earlier
\* into_raw. Its safety contract is the guard: the pointee is still there
\* and owned by nobody else, and D = Yes only for the value field of a
\* ManualOption (D = No there would leave the flag set over a dropped value).
FromRaw(c, d) ==
    /\ h[c].st = "raw"
    /\ cell[c].st = "alive"
    /\ d \in {h[c].d} \cup OtherFlags
    /\ IF FromRawPanics(d)
       THEN /\ last' = Op("from_raw", c, d, "panic", h[c].ptr)
            /\ UNCHANGED <<cell, h, vals>>
       ELSE /\ h' = [h EXCEPT ![c] = [from_raw(h[c].ptr, h[c].ty, d) EXCEPT !.len = h[c].len]]
            /\ vals' = [vals EXCEPT ![c][cell[c].val].st = "held"]
            /\ last' = Op("from_raw", c, d, "ok", h[c].ptr)
            /\ UNCHANGED cell

\* unsize!(handle) to dyn Any, dyn FnOwn or a slice: OwnRef::into_raw(e),
\* then OwnRef::from_raw(ptr, lt) on the widened pointer. Neither path names
\* a type argument: into_raw's D is that of the input, from_raw's D is
\* whatever the type expected of the macro call says (d), one of DropFlags or
\* any other 'static type; from_raw panics on the latter, after into_raw has
\* disarmed the input handle
Unsize(c, dst, d) ==
    /\ h[c].st = "live"
    /\ h[c].ty \in HeldTypes
    /\ dst \in UnsizedTypes /\ CanUnsize(h[c].ty, dst)
    /\ d \in DropFlags \cup OtherFlags
    /\ IF FromRawPanics(d)
       THEN /\ h' = [h EXCEPT ![c].st = "forgotten"]
            /\ vals' = [vals EXCEPT ![c][cell[c].val].st = "leaked"]
            /\ last' = Op("unsize", c, d, "panic", 0)
       ELSE /\ h' = [h EXCEPT ![c] = Unsized(from_raw(into_raw(h[c]), dst, d), c)]
            /\ vals' = vals
            /\ last' = Op("unsize", c, d, "ok", 0)
    /\ UNCHANGED cell

\* a method of the held value called through the handle (auto-deref), the
\* handle stays live
DerefMethod(c) ==
    /\ h[c].st = "live"
    /\ last' = Op("method", c, Dispatch(h[c]), Read(h[c]), Deref(h[c]))
    /\ UNCHANGED <<cell, h, vals>>

\* variant: deref_mut hands out a reference to a copy of the value
DerefMutWrite_onCopy(c, v) ==
    /\ h[c].st = "live"
    /\ v \in Contents \ {Read(h[c])}
    /\ last' = Op("mutate", c, Dispatch(h[c]), v, Deref(h[c]))
    /\ UNCHANGED <<cell, h, vals>>

\* the value is changed in place through <OwnRef as DerefMut>::deref_mut:
\* the write lands in the storage the handle's pointer designates, the handle
\* stays live
DerefMutWrite(c, v) ==
    /\ h[c].st = "live"
    /\ v \in Contents \ {Read(h[c])}
    /\ vals' = [pc \in Cells |-> [k \in 1..MaxFills |->
                 IF pc \in Pointee(h[c].ptr) /\ k = cell[pc].val
                 THEN [vals[pc][k] EXCEPT !.v = v]
                 ELSE vals[pc][k]]]
    /\ last' = Op("mutate", c, Dispatch(h[c]), v, Deref(h[c]))
    /\ UNCHANGED <<cell, h>>

\* the values an argument may take, and the argument tuples of each arity
\* (all "x" but for at most one "y")
Args == {"x", "y"}
ArgTuples(n) == {[i \in 1..n |-> IF i = j THEN "y" ELSE "x"] : j \in 0..n}

\* what the closure body returns for an argument tuple: it tells where the
\* "y" was
YPos(t) == IF \E i \in 1..Len(t) : t[i] = "y"
           THEN CHOOSE i \in 1..Len(t) : t[i] = "y" ELSE 0
ClosureRet(t) == "f:y@" \o ToString(YPos(t))

\* <F as FnOwn>::call_ownref(self, args) on a concrete callable: self(args)
ClosureBody(ty, a) == IF ty = "Closure" THEN ClosureRet(a) ELSE "not callable"

\* whether the handle is still armed at the time the callable is read out of
\* the storage, given the handle record the read happens under
ArmedAtRead(hh) == IF hh.st = "live" THEN "armed" ELSE "disarmed"

\* variant: the callable is read out of the storage first and self is
\* forgotten after that
CallVia_readFirst(c, a, op, name, xs) ==
    /\ h[c].st = "live"
    /\ h[c].d = "No"
    /\ h[c].ty \in {"Closure", DynFnOwn}
    /\ a \in ArgTuples(cell[c].arity)
    /\ LET callee == Dispatch(h[c])
           k == Deref(h[c])
           md == [h[c] EXCEPT !.st = "consumed"]
       IN
        /\ vals' = [vals EXCEPT ![c][k] =
                      [@ EXCEPT !.st = "dead", !.runs = Append(@, "call")]]
        /\ last' = [Op(op, c, name, ClosureBody(callee, a), k)
                      EXCEPT !.args = xs, !.obs = ArmedAtRead(h[c])]
        /\ h' = [h EXCEPT ![c] = md]
    /\ UNCHANGED cell

\* the body of <OwnRef<F> as FnOwn>::call_ownref(self, args), F concrete or
\* dyn FnOwn, reached as method op (name: the suffix of a sugar method) with
\* the argument list xs: first self is wrapped in ManuallyDrop, then the
\* entry point of the pointee's type reads the callable out of the storage
\* and calls it by value with the tuple a; the body consumes the captured
\* guard
CallVia(c, a, op, name, xs) ==
    /\ h[c].st = "live"
    /\ h[c].d = "No"
    /\ h[c].ty \in {"Closure", DynFnOwn}
    /\ a \in ArgTuples(cell[c].arity)
    /\ LET callee == Dispatch(h[c])
           k == Deref(h[c])
           md == [h[c] EXCEPT !.st = "consumed"]
       IN
        /\ vals' = [vals EXCEPT ![c][k] =
                      [@ EXCEPT !.st = "dead", !.runs = Append(@, "call")]]
        /\ last' = [Op(op, c, name, ClosureBody(callee, a), k)
                      EXCEPT !.args = xs, !.obs = ArmedAtRead(md)]
        /\ h' = [h EXCEPT ![c] = md]
    /\ UNCHANGED cell

\* variant: the erased entry point drops the callable in place instead of
\* reading it out and calling it
CallOwnRef_dropOnly(c, a) ==
    /\ h[c].st = "live"
    /\ h[c].d = "No"
    /\ h[c].ty \in {"Closure", DynFnOwn}
    /\ a \in ArgTuples(cell[c].arity)
    /\ h' = [h EXCEPT ![c].st = "consumed"]
    /\ vals' = DropInPlace(vals, c, Deref(h[c]), "handle")
    /\ last' = [Op("call_ownref", c, "-", "-", Deref(h[c])) EXCEPT !.args = a]
    /\ UNCHANGED cell

\* <OwnRef<F> as FnOwn>::call_ownref(self, args): the canonical call with
\* the argument tuple
CallOwnRef(c, a) == CallVia(c, a, "call_ownref", "-", a)

\* variant: the method is named after the number of identifiers in the
\* list, its own name included
SugarMethods_countsName ==
    {[name |-> Ident(Len(l)), params |-> Tail(l)] : l \in FeedAll \ {<< >>}}

\* call_ownref_N!($N $($I)*), fed by feed_all!: nothing for the empty list,
\* otherwise a method call_ownref$N whose parameters are the $I
SugarMethods ==
    {[name |-> Head(l), params |-> Tail(l)] : l \in FeedAll \ {<< >>}}

\* the tuple ($($I, )*) built in the body, each parameter bound to the
\* argument passed in its position
ArgsTuple(params, xs) ==
    LET ids == {params[i] : i \in 1..Len(params)}
        env == [id \in ids |-> xs[CHOOSE i \in 1..Len(params) : params[i] = id]]
    IN [i \in 1..Len(params) |-> env[params[i]]]

\* <T as Is>::cast
IsCast(it) == it

\* handle.call_ownref_N(xs): self.call_ownref(Is::cast(($($I, )*))), which
\* only type-checks where the tuple type is the callable's Args
CallOwnRefN(c, m, xs) ==
    /\ h[c].st = "live"
    /\ m \in SugarMethods
    /\ Len(xs) = Len(m.params)
    /\ Len(m.params) = cell[c].arity
    /\ CallVia(c, IsCast(ArgsTuple(m.params, xs)), "call_ownref_N", m.name, xs)

\* variant: the comparison is negated
TypeIdEq_neq(rt, U) == rt # U

\* (&*self).type_id() == TypeId::of::<T>()
TypeIdEq(rt, U) == rt = U

\* variant: into_raw is taken before the check and the handle is not rebuilt
\* on a mismatch
Downcast_leakOnErr(c, U) ==
    /\ h[c].st = "live"
    /\ h[c].d = "No"
    /\ h[c].ty = DynAny
    /\ U \in CandidateTypes
    /\ IF TypeIdEq(RuntimeType(c), U)
       THEN /\ h' = [h EXCEPT ![c] = from_raw(into_raw(h[c]), U, "No")]
            /\ last' = Op("downcast", c, U, "Ok", 0)
            /\ vals' = vals
       ELSE /\ h' = [h EXCEPT ![c].st = "raw"]
            /\ last' = Op("downcast", c, U, "Err", 0)
            /\ vals' = [vals EXCEPT ![c][cell[c].val].st = "leaked"]
    /\ UNCHANGED cell

\* OwnRef::<dyn Any>::downcast::<U>()
Downcast(c, U) ==
    /\ h[c].st = "live"
    /\ h[c].d = "No"
    /\ h[c].ty = DynAny
    /\ U \in CandidateTypes
    /\ IF TypeIdEq(RuntimeType(c), U)
       THEN /\ h' = [h EXCEPT ![c] = from_raw(into_raw(h[c]), U, "No")]
            /\ last' = Op("downcast", c, U, "Ok", 0)
       ELSE /\ h' = h
            /\ last' = Op("downcast", c, U, "Err", 0)
    /\ UNCHANGED <<cell, vals>>

\* variant: the handle's lifetime is not tied to the storage, which may go
\* out of scope under a live handle
SlotDestroy_unbound(c) ==
    /\ c \in Slots \cup Temps
    /\ cell[c].st = "alive"
    /\ cell' = [cell EXCEPT ![c].st = "gone"]
    /\ last' = Op("slot_destroy", c, "-", "-", 0)
    /\ UNCHANGED <<h, vals>>

\* variant: the storage has drop glue that drops the bytes it holds
SlotDestroy_drops(c) ==
    /\ c \in Slots \cup Temps
    /\ cell[c].st = "alive"
    /\ h[c].st # "live"
    /\ vals' = DropInPlace(vals, c, cell[c].val, "cell")
    /\ cell' = [cell EXCEPT ![c].st = "gone"]
    /\ last' = Op("slot_destroy", c, "-", "-", 0)
    /\ UNCHANGED h

\* the scope of a Slot or of an own_ref! temporary ends: MaybeUninit and
\* ManuallyDrop have no drop glue
SlotDestroy(c) ==
    /\ c \in Slots \cup Temps
    /\ cell[c].st = "alive"
    /\ h[c].st # "live"
    /\ cell' = [cell EXCEPT ![c].st = "gone"]
    /\ last' = Op("slot_destroy", c, "-", "-", 0)
    /\ UNCHANGED <<h, vals>>

\* variant: ManualOption has no drop glue
PinDestroy_inert(c) ==
    /\ c \in Pinned
    /\ cell[c].st = "alive"
    /\ h[c].st # "live"
    /\ cell' = [cell EXCEPT ![c].st = "gone"]
    /\ last' = Op("pin_destroy", c, "-", "-", 0)
    /\ UNCHANGED <<h, vals>>

\* the scope of a pinned ManualOption ends: impl Drop for ManualOption
PinDestroy(c) ==
    /\ c \in Pinned
    /\ cell[c].st = "alive"
    /\ h[c].st # "live"
    /\ vals' = IF ManualOptionDropRuns(c)
               THEN DropInPlace(vals, c, cell[c].val, "cell")
               ELSE vals
    /\ cell' = [cell EXCEPT ![c].st = "gone"]
    /\ last' = Op("pin_destroy", c, "-", "-", 0)
    /\ UNCHANGED h

\* what a scope may return
Results == {"r1", "r2"}

\* variant: the value is handed out without looking at the flag
ManualOptionThen_unchecked(c) ==
    IF cell[c].val = 0 THEN "uninit" ELSE vals[c][cell[c].val].v

\* self.is_some.then(|| self.value.assume_init_ref()): None when the flag is
\* clear, else a reference to the bytes of the value field, seen here as
\* their contents
ManualOptionThen(c) ==
    IF ~ cell[c].is_some THEN "None"
    ELSE IF cell[c].val = 0 THEN "uninit" ELSE vals[c][cell[c].val].v

\* ManualOption::as_ref(&self) and as_mut(&mut self) on a declared pinned
\* cell; both borrow the cell, which a live handle keeps borrowed
AsRef(c) ==
    /\ c \in Pinned
    /\ cell[c].st = "alive"
    /\ h[c].st # "live"
    /\ last' = Op("as_ref", c, "-", ManualOptionThen(c), cell[c].val)
    /\ UNCHANGED <<cell, h, vals>>

AsMut(c) ==
    /\ c \in Pinned
    /\ cell[c].st = "alive"
    /\ h[c].st # "live"
    /\ last' = Op("as_mut", c, "-", ManualOptionThen(c), cell[c].val)
    /\ UNCHANGED <<cell, h, vals>>

\* the ManualOption a cell is, as the pair of its fields
AsManualOption(c) ==
    [is_some |-> cell[c].is_some,
     value |-> IF cell[c].val = 0 THEN "uninit" ELSE vals[c][cell[c].val].v]

\* variant: the ManualOption is not wrapped in ManuallyDrop, so its drop glue
\* runs on the value that was read out
IntoOption_noMD(c) ==
    /\ c \in Pinned
    /\ cell[c].st = "alive"
    /\ h[c].st # "live"
    /\ vals' = IF cell[c].is_some
               THEN [IF ManualOptionDropRuns(c)
                     THEN DropInPlace(vals, c, cell[c].val, "cell")
                     ELSE vals EXCEPT ![c][cell[c].val].st = "owned"]
               ELSE vals
    /\ cell' = [cell EXCEPT ![c].st = "moved"]
    /\ last' = Op("into_option", c, HeldAs(c), OptionFrom(AsManualOption(c)), cell[c].val)
    /\ UNCHANGED h

\* Option::from(manual_option): the ManualOption is moved into the call and
\* wrapped in ManuallyDrop (its drop glue never runs); if the flag is set
\* the value is read out into the Option, which owns it from then on
IntoOption(c) ==
    /\ c \in Pinned
    /\ cell[c].st = "alive"
    /\ h[c].st # "live"
    /\ vals' = IF cell[c].is_some
               THEN [vals EXCEPT ![c][cell[c].val].st = "owned"]
               ELSE vals
    /\ cell' = [cell EXCEPT ![c].st = "moved"]
    /\ last' = Op("into_option", c, HeldAs(c), OptionFrom(AsManualOption(c)), cell[c].val)
    /\ UNCHANGED h

\* OwnRef::with(value, scope), up to the call of scope: slot() makes a Slot,
\* holding(value) fills it, and the handle is passed to scope
WithCall(c) ==
    /\ c \in Withs
    /\ cell[c].st \in {"none", "gone"}
    /\ Fills(c) < FillBound
    /\ LET k == Fills(c) + 1 IN
        /\ vals' = [vals EXCEPT ![c][k] = NewVal]
        /\ cell' = [cell EXCEPT ![c].st = "alive", ![c].val = k]
        /\ h' = [h EXCEPT ![c] = from_raw(ValueAddr(c), cell[c].ty, "No")]
    /\ last' = Op("with", c, "-", "-", 0)

\* variant: with() keeps the value in a local of its own and hands out a
\* handle to it, so the local is dropped when with() returns
WithReturn_ownsValue(c, r) ==
    /\ c \in Withs
    /\ cell[c].st = "alive"
    /\ h[c].st # "live"
    /\ r \in Results
    /\ vals' = DropInPlace(vals, c, cell[c].val, "cell")
    /\ cell' = [cell EXCEPT ![c].st = "gone"]
    /\ last' = Op("with_return", c, r, r, 0)
    /\ UNCHANGED h

\* scope returns r (it received the handle by value, so the handle has been
\* dropped, consumed or forgotten by then) and with() returns it; the Slot,
\* a temporary of with(), goes out of scope
WithReturn(c, r) ==
    /\ c \in Withs
    /\ cell[c].st = "alive"
    /\ h[c].st # "live"
    /\ r \in Results
    /\ cell' = [cell EXCEPT ![c].st = "gone"]
    /\ last' = Op("with_return", c, r, r, 0)
    /\ UNCHANGED <<h, vals>>

\* OwnRef::with_pinned(value, scope), up to the call of scope: slot!() makes
\* a vacant ManualOption, holding(value) resets it, writes the value, sets
\* the flag, and the pinned flagged handle is passed to scope
WithPinnedCall(c) ==
    /\ c \in PinWiths
    /\ cell[c].st \in {"none", "gone"}
    /\ Fills(c) < FillBound
    /\ LET k == Fills(c) + 1 IN
        /\ vals' = [vals EXCEPT ![c][k] = NewVal]
        /\ cell' = [cell EXCEPT ![c].st = "alive", ![c].val = k, ![c].is_some = TRUE]
        /\ h' = [h EXCEPT ![c] = from_raw(ValueAddr(c), cell[c].ty, "Yes")]
    /\ last' = Op("with_pinned", c, "-", "-", 0)

\* scope returns r and with_pinned returns it; the ManualOption, a temporary
\* of with_pinned, goes out of scope and its drop glue runs
WithPinnedReturn(c, r) ==
    /\ c \in PinWiths
    /\ cell[c].st = "alive"
    /\ h[c].st # "live"
    /\ r \in Results
    /\ vals' = IF ManualOptionDropRuns(c)
               THEN DropInPlace(vals, c, cell[c].val, "cell")
               ELSE vals
    /\ cell' = [cell EXCEPT ![c].st = "gone"]
    /\ last' = Op("with_pinned_return", c, r, r, 0)
    /\ UNCHANGED h

Next ==
    \/ \E c \in Cells : SlotHolding(c)
    \/ \E c \in Cells, sty \in StaticTypes : OwnRefMacro(c, sty)
    \/ \E c \in Cells : PinHolding(c)
    \/ \E c \in Cells : HandleDrop(c)
    \/ \E c \in Cells : Forget(c)
    \/ \E c \in Cells : DerefMove(c)
    \/ \E c \in Cells : IntoInner(c)
    \/ \E c \in Cells, k \in 1..MaxFills : DropOwned(c, k)
    \/ \E c \in Cells : IntoRaw(c)
    \/ \E c \in Cells, dst \in UnsizedTypes, d \in DropFlags \cup OtherFlags :
            Unsize(c, dst, d)
    \/ \E c \in Cells, U \in CandidateTypes : Downcast(c, U)
    \/ \E c \in Cells : SlotDestroy(c)
    \/ \E c \in Cells : PinDestroy(c)
    \/ \E c \in Cells : DerefMethod(c)
    \/ \E c \in Cells, d \in DropFlags \cup OtherFlags : FromRaw(c, d)
    \/ \E c \in Cells : \E a \in ArgTuples(cell[c].arity) : CallOwnRef(c, a)
    \/ \E c \in Cells : WithCall(c)
    \/ \E c \in Cells, r \in Results : WithReturn(c, r)
    \/ \E c \in Cells :
            \E m \in {sm \in SugarMethods : Len(sm.params) = cell[c].arity} :
                \E xs \in ArgTuples(cell[c].arity) : CallOwnRefN(c, m, xs)
    \/ \E c \in Cells : WithPinnedCall(c)
    \/ \E c \in Cells, r \in Results : WithPinnedReturn(c, r)
    \/ \E c \in Cells, v \in Contents : DerefMutWrite(c, v)
    \/ \E c \in Cells : AsRef(c)
    \/ \E c \in Cells : AsMut(c)
    \/ \E c \in Cells : IntoOption(c)

Spec == Init /\ [][Next]_vars

\* ------------------------------------------------------------------ claims
Plain == Slots \cup Temps
FillNos == 1..MaxFills
Cur(c) == cell[c].val
Runs(c, k) == vals[c][k].runs
RanBy(c, k, by) == \E j \in 1..Len(Runs(c, k)) : Runs(c, k)[j] = by

\* C1: once a plain handle (DropFlags::No, from Slot::holding or own_ref!) has
\* been destroyed, the destructor of the value it held has run exactly once,
\* by the handle; nothing later, the destruction of the backing cell
\* included, runs it again.
C1_PlainHandleDropOnce ==
    \A c \in Plain :
        /\ (h[c].st = "dropped" /\ h[c].d = "No" /\ HasDtor(c))
              => Runs(c, Cur(c)) = <<"handle">>
        /\ \A k \in FillNos : RanBy(c, k, "handle") => Runs(c, k) = <<"handle">>

C1_Witness ==
    \E c \in Plain :
        /\ h[c].st = "dropped" /\ h[c].d = "No" /\ HasDtor(c)
        /\ cell[c].st = "gone"
        /\ Runs(c, Cur(c)) = <<"handle">>

\* C2: deref_move / into_inner leaves the handle disarmed and the value
\* owned by the caller with no destructor run; the destructor of an
\* extracted value runs exactly once, when its owner drops it.
C2_ExtractMovesOut ==
    \A c \in Cells :
        /\ (last.op \in {"deref_move", "into_inner"} /\ last.c = c)
              => /\ h[c].st = "consumed"
                 /\ last.n = Cur(c)
                 /\ vals[c][Cur(c)].st = "owned"
        /\ \A k \in FillNos :
              /\ vals[c][k].st = "owned" => Runs(c, k) = << >>
              /\ RanBy(c, k, "owner") => Runs(c, k) = <<"owner">>
              /\ (last.op = "drop_owned" /\ last.c = c /\ last.n = k /\ HasDtor(c))
                    => Runs(c, k) = <<"owner">>

\* C3: a Slot whose handle has been dropped or consumed can be filled again;
\* neither the second fill nor the destruction of the second handle touches
\* the destructor of another fill, and no value of the slot is destroyed
\* twice: a value whose handle was dropped is destroyed exactly once.
C3_SlotReuse ==
    /\ [](\A c \in Slots :
            /\ (cell[c].st = "alive" /\ h[c].st \in {"dropped", "consumed"}
                  /\ Fills(c) < FillBound) => ENABLED SlotHolding(c)
            /\ \A k \in FillNos :
                  /\ DropCount(c, k) <= 1
                  /\ (vals[c][k].st = "dead" /\ HasDtor(c)) => DropCount(c, k) = 1)
    /\ [][\A c \in Slots :
            (last'.op \in {"holding", "drop"} /\ last'.c = c)
               => \A k \in FillNos : k # Cur(c)' => Runs(c, k)' = Runs(c, k)]_vars

C3_Witness ==
    \E c \in Slots :
        /\ HasDtor(c) /\ Cur(c) = 2 /\ h[c].st = "dropped"
        /\ Runs(c, 1) = <<"handle">>
        /\ Runs(c, 2) = <<"handle">>

\* C4: leaking the flagged handle leaves the present-flag set, and the
\* destruction of the pinned cell then runs the value's destructor exactly
\* once, at that point; in general the cell's destructor runs the destructor
\* of the value (of a type that has one) iff the flag is set.
C4_PinLeakSafety ==
    [][\A c \in Pinned :
         /\ (last'.op = "forget" /\ last'.c = c)
               => (cell[c].is_some /\ cell'[c].is_some)
         /\ (last'.op = "pin_destroy" /\ last'.c = c /\ Cur(c) # 0)
               => /\ (Runs(c, Cur(c))' # Runs(c, Cur(c)))
                       <=> (cell[c].is_some /\ HasDtor(c))
                  /\ (Runs(c, Cur(c))' # Runs(c, Cur(c)))
                       => Runs(c, Cur(c))' = Append(Runs(c, Cur(c)), "cell")
                  /\ (h[c].st = "forgotten" /\ HasDtor(c))
                       => (Runs(c, Cur(c)) = << >> /\ Runs(c, Cur(c))' = <<"cell">>)
      ]_vars

C4_Witness ==
    \E c \in Pinned :
        /\ last.op = "pin_destroy" /\ last.c = c
        /\ h[c].st = "forgotten"
        /\ Runs(c, Cur(c)) = <<"cell">>

\* C5: once the flagged handle of a pinned cell has been destroyed normally,
\* the value's destructor has run exactly once, by the handle, and the
\* destruction of the cell afterwards adds no run.
C5_PinHandleDropOnce ==
    \A c \in Pinned :
        (h[c].st = "dropped" /\ h[c].d = "Yes" /\ HasDtor(c))
           => Runs(c, Cur(c)) = <<"handle">>

C5_Witness ==
    \E c \in Pinned :
        /\ h[c].st = "dropped" /\ h[c].d = "Yes" /\ HasDtor(c)
        /\ cell[c].st = "gone"
        /\ Runs(c, Cur(c)) = <<"handle">>

\* C6: whatever happened to the handle (dropped, leaked, turned into a raw
\* pointer), every value of a type with a destructor that was written into a
\* pinned cell has had its destructor run once the cell is destroyed or its
\* storage has been overwritten by another fill.
C6_PinDropGuarantee ==
    \A c \in Pinned : \A k \in FillNos :
        (HasDtor(c) /\ vals[c][k].st # "unborn"
           /\ (cell[c].st = "gone" \/ Cur(c) # k))
        => DropCount(c, k) >= 1

C6_Witness ==
    \E c \in Pinned :
        /\ HasDtor(c) /\ cell[c].st = "gone" /\ Cur(c) = 2
        /\ h[c].st = "raw"
        /\ Runs(c, 1) = <<"refill">>
        /\ Runs(c, 2) = <<"cell">>

C11_UnsizeStep ==
    \A c \in Cells :
        (last'.op = "unsize" /\ last'.c = c) =>
            /\ h[c].st = "live" /\ h[c].ty \in HeldTypes
            /\ h'[c].st = "live" /\ h'[c].ty \in {"dynAny", "dynFnOwn", "slice"}
            /\ h'[c].ptr = h[c].ptr
            /\ \A k \in FillNos : vals'[c][k] = vals[c][k]
            /\ cell' = cell
            /\ Dispatch(h'[c]) = Dispatch(h[c])
            /\ Deref(h'[c]) = Deref(h[c])
            /\ Deref(h[c]) = Cur(c)
C11_MethodStep ==
    \A c \in Cells :
        (last'.op = "method" /\ last'.c = c) =>
            /\ last'.arg = cell[c].ty
            /\ last'.n = Cur(c)
            /\ vals' = vals /\ h' = h
C11_DropAfterUnsize ==
    \A c \in Cells :
        (last.op = "unsize" /\ last.c = c /\ last'.op = "drop" /\ last'.c = c
            /\ HasDtor(c)) =>
            /\ Runs(c, Cur(c)) = << >>
            /\ vals'[c][Cur(c)].runs = <<"handle">>
C11_Unsize ==
    /\ [][C11_UnsizeStep /\ C11_MethodStep /\ C11_DropAfterUnsize]_vars
    /\ [](\A c \in Cells : (h[c].ty \in {"dynAny", "dynFnOwn"} /\ h[c].st = "dropped"
                /\ HasDtor(c) /\ c \in Plain) => Runs(c, Cur(c)) = <<"handle">>)

\* C12: into_raw disarms the handle (no destructor runs, storage unchanged)
\* and returns its address; from_raw on that result gives back a live
\* handle with the same address, type and drop mode over the same value;
\* dropping the rebuilt handle runs the destructor exactly once.
C12_IntoRawStep ==
    \A c \in Cells :
        (last'.op = "into_raw" /\ last'.c = c) =>
            /\ h[c].st = "live"
            /\ h'[c] = [h[c] EXCEPT !.st = "raw"]
            /\ last'.n = h[c].ptr
            /\ cell' = cell
            /\ \A k \in FillNos : vals'[c][k].runs = vals[c][k].runs
C12_FromRawStep ==
    \A c \in Cells :
        (last.op = "into_raw" /\ last.c = c
            /\ last'.op = "from_raw" /\ last'.c = c /\ last'.res = "ok") =>
            /\ h'[c] = [h[c] EXCEPT !.st = "live"]
            /\ h'[c].ptr = last.n
            /\ Deref(h'[c]) = Cur(c)
            /\ vals'[c][Cur(c)].st = "held"
            /\ cell' = cell
            /\ \A k \in FillNos : vals'[c][k].runs = vals[c][k].runs
C12_DropAfterFromRaw ==
    \A c \in Cells :
        (last.op = "from_raw" /\ last.res = "ok" /\ last.c = c
            /\ last'.op = "drop" /\ last'.c = c /\ HasDtor(c)) =>
            /\ Runs(c, Cur(c)) = << >>
            /\ vals'[c][Cur(c)].runs = <<"handle">>
C12_RawRoundTrip ==
    [][C12_IntoRawStep /\ C12_FromRawStep /\ C12_DropAfterFromRaw]_vars
C12_Witness ==
    \E c \in Cells :
        /\ last.op = "from_raw" /\ last.res = "ok" /\ last.c = c
        /\ h[c].st = "live" /\ HasDtor(c)
        /\ vals[c][Cur(c)].st = "held"

\* C18: from_raw instantiated with a drop mode that is neither Yes nor No
\* panics before a handle exists (handles, storage and values are left as
\* they were, so no destructor runs); instantiated with Yes or No it does
\* not panic and returns a live handle. No handle ever carries another mode.
C18_FromRawStep ==
    \A c \in Cells :
        (last'.op = "from_raw" /\ last'.c = c) =>
            /\ (last'.res = "panic") <=> (last'.arg \notin {"Yes", "No"})
            /\ (last'.arg \notin {"Yes", "No"}) =>
                    (h' = h /\ vals' = vals /\ cell' = cell)
            /\ (last'.arg \in {"Yes", "No"}) =>
                    (last'.res = "ok" /\ h'[c].st = "live" /\ h'[c].d = last'.arg)
C18_FromRawDropMode ==
    /\ [][C18_FromRawStep]_vars
    /\ [](\A c \in Cells : h[c].d \in {"Yes", "No"})
C18_Witness ==
    \E c \in Cells :
        /\ last.op = "from_raw" /\ last.c = c
        /\ last.arg = "Unit" /\ last.res = "panic"
        /\ h[c].st = "raw"

\* C13: call_ownref on a handle over an erased callable (dyn FnOwn) invokes
\* the callable of the current fill exactly once, and returns what the
\* concrete closure returns when called directly with the same arguments.
Calls(rs) == Cardinality({j \in 1..Len(rs) : rs[j] = "call"})
C13_CallStep ==
    \A c \in Cells :
        (last'.op = "call_ownref" /\ last'.c = c /\ h[c].ty = "dynFnOwn") =>
            /\ cell[c].ty = "Closure"
            /\ last'.res = ClosureRet(last'.args)
            /\ last'.n = Cur(c)
            /\ Calls(Runs(c, Cur(c))) = 0
            /\ Calls(vals'[c][Cur(c)].runs) = 1
C13_DynCallDispatch ==
    /\ [][C13_CallStep]_vars
    /\ [](\A c \in Cells, k \in FillNos : Calls(Runs(c, k)) <= 1)
C13_Witness ==
    \E c \in Cells :
        /\ last.op = "call_ownref" /\ last.c = c /\ h[c].ty = "dynFnOwn"
        /\ last.args = <<"x", "y">> /\ last.res = "f:y@2"
        /\ Calls(Runs(c, Cur(c))) = 1

\* C14: once call_ownref has returned, the callable and the guard it
\* captured have been consumed exactly once, by the call: the handle is
\* consumed, the storage is untouched, and nothing (handle, cell, later
\* fill) runs a destructor on that callable afterwards.
C14_CallStep ==
    \A c \in Cells :
        (last'.op = "call_ownref" /\ last'.c = c) =>
            /\ h'[c].st = "consumed"
            /\ cell' = cell
            /\ vals'[c][Cur(c)].st = "dead"
            /\ vals'[c][Cur(c)].runs = <<"call">>
C14_CalledOnce ==
    /\ [][C14_CallStep]_vars
    /\ [](\A c \in Cells, k \in FillNos :
            RanBy(c, k, "call") => (Runs(c, k) = <<"call">> /\ vals[c][k].st = "dead"))

\* C15: a live handle is the only owner of the current fill of its cell:
\* its pointer designates that fill, the fill is held by it, no value of an
\* earlier fill is still held by a handle, and while the handle is live no
\* operation that fills the cell is enabled.
C15_State ==
    \A c \in Cells :
        /\ h[c].st = "live" =>
            /\ Cur(c) # 0
            /\ Deref(h[c]) = Cur(c)
            /\ vals[c][Cur(c)].st = "held"
            /\ ~ ENABLED SlotHolding(c)
            /\ ~ ENABLED PinHolding(c)
            /\ ~ ENABLED (\E sty \in StaticTypes : OwnRefMacro(c, sty))
            /\ ~ ENABLED (\E d \in {"No", "Yes"} : FromRaw(c, d))
        /\ \A k \in FillNos :
            vals[c][k].st = "held" => (h[c].st = "live" /\ k = Cur(c))
C15_OneHandlePerFill == [](C15_State)
C15_Witness ==
    \E c \in Slots :
        /\ h[c].st = "live" /\ Cur(c) = 2
        /\ vals[c][1].st \in {"leaked", "dead", "owned"}
        /\ vals[c][2].st = "held"

\* C16: a live handle's backing storage (cell or own_ref! temporary) has
\* not been destroyed, and storage is only ever destroyed when its handle
\* is no longer live.
C16_DestroyStep ==
    \A c \in Cells :
        (last'.op \in {"slot_destroy", "pin_destroy"} /\ last'.c = c) =>
            (h[c].st # "live" /\ cell[c].st = "alive" /\ cell'[c].st = "gone")
C16_HandleWithinStorage ==
    /\ [](\A c \in Cells : h[c].st = "live" => cell[c].st = "alive")
    /\ [][C16_DestroyStep]_vars
C16_Witness ==
    \E c \in Temps :
        /\ h[c].st = "live" /\ cell[c].st = "alive"
        /\ Cur(c) = 2

\* C17: plain storage never runs a destructor: destroying or re-filling it
\* leaves every destructor count as it was, no value of a plain cell is ever
\* destroyed by a cell or by a re-fill, and a value whose plain handle was
\* leaked has been destroyed zero times, in every later state.
C17_PlainStep ==
    \A c \in Plain :
        (last'.op \in {"slot_destroy", "holding", "own_ref"} /\ last'.c = c) =>
            \A k \in FillNos : vals'[c][k].runs = vals[c][k].runs
C17_SlotInert ==
    /\ [][C17_PlainStep]_vars
    /\ [](\A c \in Plain, k \in FillNos :
            /\ ~ RanBy(c, k, "cell")
            /\ ~ RanBy(c, k, "refill")
            /\ vals[c][k].st = "leaked" => Runs(c, k) = << >>)
C17_Witness ==
    \E c \in Slots :
        /\ HasDtor(c)
        /\ cell[c].st = "gone" /\ Cur(c) = 2
        /\ vals[c][1].st = "leaked" /\ Runs(c, 1) = << >>
        /\ h[c].st = "forgotten" /\ vals[c][2].st = "leaked"

\* C19: OwnRef::with hands scope a live plain handle whose pointer
\* designates exactly the value passed in (a fresh fill, not yet destroyed),
\* and returns exactly what scope returned; if the handle was dropped inside
\* scope, the value's destructor has run exactly once when with() returns,
\* and returning runs no destructor.
C19_WithStep ==
    \A c \in Cells :
        (last'.op = "with" /\ last'.c = c) =>
            /\ cell'[c].val = Fills(c) + 1
            /\ h'[c].st = "live" /\ h'[c].d = "No" /\ h'[c].ty = cell[c].ty
            /\ h'[c].ptr = ValueAddr(c)'
            /\ vals'[c][cell'[c].val] = [st |-> "held", runs |-> << >>, v |-> "v0"]
C19_ReturnStep ==
    \A c \in Cells :
        (last'.op = "with_return" /\ last'.c = c) =>
            /\ last'.res = last'.arg
            /\ h[c].st # "live"
            /\ vals' = vals
C19_With ==
    /\ [][C19_WithStep /\ C19_ReturnStep]_vars
    /\ [](\A c \in Cells :
            (last.op = "with_return" /\ last.c = c /\ h[c].st = "dropped"
                /\ HasDtor(c)) => Runs(c, Cur(c)) = <<"handle">>)
C19_Witness ==
    \E c \in Withs :
        /\ last.op = "with_return" /\ last.c = c /\ last.res = "r2"
        /\ h[c].st = "dropped" /\ HasDtor(c)
        /\ Runs(c, Cur(c)) = <<"handle">>

\* C20: when a flagged handle is dropped and the value has a destructor,
\* the destructor starts with the present-flag already cleared: in no drop
\* of a flagged handle does the destructor find the flag set.
C20_DropStep ==
    \A c \in Cells :
        (last'.op = "drop" /\ last'.c = c /\ h[c].d = "Yes") =>
            /\ last'.arg # "set"
            /\ (vals'[c][Cur(c)].runs # Runs(c, Cur(c))) =>
                    /\ cell[c].is_some
                    /\ last'.arg = "clear"
                    /\ ~ cell'[c].is_some
                    /\ vals'[c][Cur(c)].runs = <<"handle">>
C20_FlagClearedBeforeDtor ==
    /\ [][C20_DropStep]_vars
    /\ [](\A c \in Pinned : (last.op = "drop" /\ last.c = c) => last.arg # "set")

\* C21: in call_ownref (canonical or sugar) the handle is already disarmed
\* when the callable is read out of its storage and invoked: no call finds
\* the handle armed at that point, and the handle ends consumed.
C21_CallStep ==
    \A c \in Cells :
        (last'.op \in {"call_ownref", "call_ownref_N"} /\ last'.c = c) =>
            /\ h[c].st = "live"
            /\ last'.obs = "disarmed"
            /\ h'[c].st = "consumed"
            /\ vals'[c][Cur(c)].runs = <<"call">>
C22_Methods ==
    \A N \in 0..11 :
        /\ Cardinality({m \in SugarMethods : m.name = Ident(N)}) = 1
        /\ \A m \in SugarMethods : m.name = Ident(N) => Len(m.params) = N
C22_SugarStep ==
    \A c \in Cells :
        (last'.op = "call_ownref_N" /\ last'.c = c) =>
            /\ \E N \in 0..11 : last'.arg = Ident(N) /\ Len(last'.args) = N
            /\ h[c].st = "live" /\ h[c].d = "No"
            /\ last'.args \in ArgTuples(cell[c].arity)
            /\ last'.res = ClosureRet(last'.args)
            /\ last'.n = Cur(c)
            /\ h' = [h EXCEPT ![c].st = "consumed"]
            /\ vals' = [vals EXCEPT ![c][Cur(c)].st = "dead",
                                    ![c][Cur(c)].runs = <<"call">>]
            /\ cell' = cell
C22_SugarIsCanonical ==
    /\ [][C22_SugarStep]_vars
    /\ [](C22_Methods)
C22_Witness ==
    \E c \in Cells :
        /\ last.op = "call_ownref_N" /\ last.c = c /\ last.arg = "_11"
        /\ Len(last.args) = 11 /\ last.args[3] = "y" /\ last.res = "f:y@3"
        /\ h[c].st = "consumed"

\* C23: dropping a handle over an erased callable that was never called
\* runs the destructor of the callable (and so of what it captured) exactly
\* once, and nothing runs it again afterwards.
C23_DropStep ==
    \A c \in Cells :
        (last'.op = "drop" /\ last'.c = c /\ h[c].ty = "dynFnOwn") =>
            /\ cell[c].ty = "Closure"
            /\ Runs(c, Cur(c)) = << >>
            /\ vals'[c][Cur(c)].runs = <<"handle">>
            /\ vals'[c][Cur(c)].st = "dead"
C23_UncalledCallableDropped ==
    /\ [][C23_DropStep]_vars
    /\ [](\A c \in Cells :
            (h[c].ty = "dynFnOwn" /\ h[c].st = "dropped") =>
                Runs(c, Cur(c)) = <<"handle">>)

\* C24: when with_pinned returns, the destructor of the value it was given
\* has run exactly once, by the handle if scope dropped it and by the cell
\* if scope leaked it, and with_pinned returns what scope returned.
C24_ReturnStep ==
    \A c \in Cells :
        (last'.op = "with_pinned_return" /\ last'.c = c) =>
            /\ last'.res = last'.arg
            /\ h[c].st # "live"
            /\ HasDtor(c) =>
                /\ Len(vals'[c][Cur(c)].runs) = 1
                /\ h[c].st = "dropped" => vals'[c][Cur(c)].runs = <<"handle">>
                /\ h[c].st \in {"forgotten", "raw"} => vals'[c][Cur(c)].runs = <<"cell">>
C24_WithPinned ==
    /\ [][C24_ReturnStep]_vars
    /\ [](\A c \in PinWiths, k \in FillNos :
            (HasDtor(c) /\ vals[c][k].st # "unborn"
                /\ (k < Cur(c) \/ cell[c].st = "gone")) => DropCount(c, k) = 1)

\* C25: dropping a handle widened from an array of N elements to a slice
\* runs the array's drop glue exactly once, over exactly the N elements the
\* array has, for every array length; nothing destroys them again.
C25_UnsizeStep ==
    \A c \in Cells :
        (last'.op \in {"unsize", "own_ref"} /\ last'.c = c /\ h'[c].ty = "slice") =>
            (cell[c].ty = "Array" /\ h'[c].len = cell[c].len)
C25_DropStep ==
    \A c \in Cells :
        (last'.op = "drop" /\ last'.c = c /\ h[c].ty = "slice") =>
            /\ cell[c].ty = "Array"
            /\ cell[c].len \in 1..MaxLen
            /\ last'.n = cell[c].len
            /\ Runs(c, Cur(c)) = << >>
            /\ vals'[c][Cur(c)].runs = <<"handle">>
C25_SliceDrop ==
    /\ [][C25_UnsizeStep /\ C25_DropStep]_vars
    /\ [](\A c \in Cells :
            (h[c].ty = "slice" /\ h[c].st = "dropped") => Runs(c, Cur(c)) = <<"handle">>)

\* C26: dereferencing a handle, shared (Deref, a by-reference method) or
\* exclusive (DerefMut, an in-place write), changes no handle and no cell: the
\* handle is neither consumed nor disarmed, the present-flag keeps its value,
\* no value changes liveness and no destructor runs. The write through
\* DerefMut lands in the value the handle owns; every other step leaves the
\* contents of every value alone; and a later read, an extraction and the
\* destructor each see the contents the value has at that moment.
C26_DerefStep ==
    \A c \in Cells :
        (last'.op \in {"method", "mutate"} /\ last'.c = c) =>
            /\ h[c].st = "live"
            /\ h' = h
            /\ cell' = cell
            /\ \A pc \in Cells : \A k \in 1..MaxFills :
                    /\ vals'[pc][k].st = vals[pc][k].st
                    /\ vals'[pc][k].runs = vals[pc][k].runs
            /\ last'.op = "mutate" =>
                    /\ last'.res \in Contents
                    /\ vals'[c][Cur(c)].v = last'.res
                    /\ vals[c][Cur(c)].v # last'.res
            /\ last'.op = "method" => vals' = vals
C26_OnlyDerefMutWrites ==
    \A c \in Cells : \A k \in 1..MaxFills :
        (vals[c][k].st # "unborn" /\ vals'[c][k].v # vals[c][k].v) =>
            (last'.op = "mutate" /\ last'.c = c /\ k = Cur(c))
C26_ReadStep ==
    \A c \in Cells :
        /\ (last'.op \in {"method", "deref_move", "into_inner"} /\ last'.c = c) =>
                last'.res = vals[c][Cur(c)].v
        /\ (last'.op = "drop" /\ last'.c = c /\ last'.res # "-") =>
                last'.res = vals[c][Cur(c)].v
C26_DerefKeepsHandle ==
    [][C26_DerefStep /\ C26_OnlyDerefMutWrites /\ C26_ReadStep]_vars
C26_Witness ==
    \E c \in Cells :
        /\ last.op = "drop" /\ last.c = c /\ last.res = "v1"
        /\ h[c].st = "dropped"
        /\ vals[c][Cur(c)].v = "v1" /\ Runs(c, Cur(c)) = <<"handle">>

\* C27: when a flagged handle (DropFlags::Yes) over a value with drop glue is
\* destroyed, the address it computes for the flag, the value's address
\* minus align_of_val of the value, is the address of the is_some field of
\* the ManualOption that holds the value, for the alignments 1, 2, 4, 8 and
\* 16 and also when the handle was widened to a trait object or a slice; the
\* write through that address clears that cell's flag.
C27_DropStep ==
    \A c \in Cells :
        (/\ last'.op = "drop" /\ last'.c = c
         /\ h[c].d = "Yes" /\ NeedsDropStatic(h[c].ty)) =>
            /\ c \in Flagged
            /\ h[c].ptr = ValueAddr(c)
            /\ AlignOfVal(c, h[c].ty) = AlignOf(cell[c].ty)
            /\ h[c].ptr - AlignOfVal(c, h[c].ty) = BaseAddr(c) + OffsetOfIsSome
            /\ IsSomeAddr(h[c].ptr, AlignOfVal(c, h[c].ty)) = FlagAddr(c)
            /\ ~ cell'[c].is_some
C27_Layout ==
    \A ty \in HeldTypes :
        /\ AlignOf(ty) \in {1, 2, 4, 8, 16}
        /\ \A c \in Flagged : ValueOffset(c, ty) - AlignOf(ty) = OffsetOfIsSome
C28_AsStep ==
    \A c \in Cells :
        (last'.op \in {"as_ref", "as_mut"} /\ last'.c = c) =>
            /\ c \in Pinned
            /\ (last'.res = "None") <=> ~ cell[c].is_some
            /\ cell[c].is_some =>
                    /\ Cur(c) \in 1..MaxFills
                    /\ last'.res = vals[c][Cur(c)].v
                    /\ last'.res \in Contents
            /\ cell' = cell /\ h' = h /\ vals' = vals
C28_AsRefAsMut == [][C28_AsStep]_vars
C28_Witness ==
    \E c \in Pinned :
        /\ last.op = "as_mut" /\ last.c = c /\ last.res = "v1"
        /\ cell[c].is_some /\ h[c].st = "forgotten"
        /\ vals[c][Cur(c)].st = "leaked"

\* C29: the cells of the tuple that slots() yields start vacant and are
\* independent: an operation on one cell or on its handle (a fill, a drop, a
\* leak, the end of the cell's scope) leaves the other cell, its handle and
\* its values as they were, so a cell left unfilled stays vacant; and a value
\* with drop glue written into a cell of the tuple has its destructor run
\* once, by its own handle, when that handle is dropped, and by nothing else.
C29_Tuple == \A c \in TupleSlots : cell[c].st # "unused"
C29_Frame ==
    \A c \in TupleSlots : \A c2 \in TupleSlots \ {c} :
        (C29_Tuple /\ last'.c = c) =>
            /\ cell'[c2] = cell[c2]
            /\ h'[c2] = h[c2]
            /\ vals'[c2] = vals[c2]
C29_Vacant ==
    (C29_Tuple /\ last.op = "init") =>
        \A c \in TupleSlots :
            /\ cell[c].st = "alive" /\ cell[c].val = 0
            /\ h[c] = NoHandle
            /\ \A k \in 1..MaxFills : vals[c][k] = NoVal
C29_OncePerHandle ==
    C29_Tuple =>
        \A c \in TupleSlots :
            /\ cell[c].val = 0 => h[c] = NoHandle
            /\ \A k \in 1..MaxFills :
                    /\ Len(Runs(c, k)) <= 1
                    /\ ~ RanBy(c, k, "cell") /\ ~ RanBy(c, k, "refill")
            /\ (h[c].st = "dropped" /\ NeedsDrop(cell[c].ty)) =>
                    Runs(c, Cur(c)) = <<"handle">>
C30_FlagSetBy(c) ==
    /\ cell[c].is_some
    /\ \/ h[c].st \in {"forgotten", "raw"}
       \/ h[c] = NoHandle
C30_HoldingStep ==
    \A c \in Pinned :
        (last'.op = "pin_holding" /\ last'.c = c /\ C30_FlagSetBy(c)) =>
            /\ Cur(c) \in 1..MaxFills
            /\ last'.arg \in {"leaked", "stored"}
            /\ (h[c] = NoHandle) <=> (last'.arg = "stored")
            /\ Runs(c, Cur(c)) = << >>
            /\ vals'[c][Cur(c)].runs = IF HasDtor(c) THEN <<"refill">> ELSE << >>
            /\ vals'[c][Cur(c)].st = IF HasDtor(c) THEN "dead" ELSE vals[c][Cur(c)].st
            /\ Cur(c)' = Cur(c) + 1
            /\ vals'[c][Cur(c)'].st = "held" /\ vals'[c][Cur(c)'].runs = << >>
            /\ cell'[c].is_some
            /\ h'[c].st = "live" /\ h'[c].d = "Yes"
            /\ h'[c].ptr = BaseAddr(c) + AlignOf(cell[c].ty)
C30_HoldingOnOccupied ==
    [][C30_HoldingStep]_vars
C30_Witness ==
    \E c \in Pinned :
        /\ last.op = "pin_holding" /\ last.c = c /\ last.arg = "stored"
        /\ HasDtor(c)
        /\ Cur(c) = 2 /\ cell[c].is_some /\ h[c].st = "live"
        /\ Runs(c, 1) = <<"refill">> /\ Runs(c, 2) = << >>

\* C31: widening preserves the destruction mode: the handle unsize! yields
\* has the drop mode of its input handle, so that in every state a live
\* handle over a ManualOption is flagged (DropFlags::Yes) and a live handle
\* over a plain slot or temporary is plain (DropFlags::No).
C31_UnsizeStep ==
    \A c \in Cells :
        (last'.op = "unsize" /\ last'.c = c /\ last'.res = "ok") =>
            h'[c].d = h[c].d
C31_ModeMatchesStorage ==
    \A c \in Cells :
        h[c].st = "live" => ((h[c].d = "Yes") <=> (c \in Flagged))
C31_ModePreserved ==
    /\ [][C31_UnsizeStep]_vars
    /\ [](C31_ModeMatchesStorage)

\* C32: in every state of a pinned cell whose held type has a destructor, a
\* set present-flag implies that the cell holds a value that was written,
\* that no destructor has run on and that was not moved out; and the drop
\* glue of the cell (at the end of its scope, or in holding's set(None))
\* never runs a destructor on a value that already had one run, that was
\* moved out, or that was never written.
C32_FlagImpliesValue ==
    \A c \in Flagged :
        (cell[c].st = "alive" /\ cell[c].is_some /\ HasDtor(c)) =>
            /\ Cur(c) \in 1..MaxFills
            /\ vals[c][Cur(c)].st \notin {"unborn", "dead", "owned"}
            /\ Runs(c, Cur(c)) = << >>
C32_CellDropStep ==
    \A c \in Flagged : \A k \in 1..MaxFills :
        (/\ last'.op \in {"pin_destroy", "pin_holding", "with_pinned_return"}
         /\ last'.c = c
         /\ vals'[c][k].runs # vals[c][k].runs) =>
            /\ k = Cur(c)
            /\ vals[c][k].st \notin {"unborn", "dead", "owned"}
            /\ vals[c][k].runs = << >>
            /\ Len(vals'[c][k].runs) = 1
C32_FlagSound ==
    /\ [](C32_FlagImpliesValue)
    /\ [][C32_CellDropStep]_vars

\* C33: into_raw on a flagged handle over a pinned cell leaves the cell as
\* it is, its present-flag set, and runs no destructor; when the cell is
\* then destroyed while the raw address was not made into a handle again,
\* the cell's drop glue runs the destructor of the value, which had not run
\* before, exactly once.
C33_IntoRawStep ==
    \A c \in Flagged :
        (last'.op = "into_raw" /\ last'.c = c /\ h[c].d = "Yes") =>
            /\ cell[c].is_some
            /\ cell' = cell
            /\ h'[c] = [h[c] EXCEPT !.st = "raw"]
            /\ last'.n = h[c].ptr
            /\ Runs(c, Cur(c)) = << >>
            /\ vals'[c][Cur(c)].runs = << >>
            /\ vals'[c][Cur(c)].st = "leaked"
C33_DestroyStep ==
    \A c \in Flagged :
        (/\ last'.op \in {"pin_destroy", "with_pinned_return"} /\ last'.c = c
         /\ h[c].st = "raw" /\ h[c].d = "Yes") =>
            /\ cell[c].is_some
            /\ Runs(c, Cur(c)) = << >>
            /\ vals'[c][Cur(c)].runs = IF HasDtor(c) THEN <<"cell">> ELSE << >>
C33_AfterDestroy ==
    \A c \in Flagged :
        (cell[c].st = "gone" /\ h[c].st = "raw" /\ h[c].d = "Yes" /\ HasDtor(c)) =>
            Runs(c, Cur(c)) = <<"cell">>
C33_IntoRawKeepsFlag ==
    /\ [][C33_IntoRawStep /\ C33_DestroyStep]_vars
    /\ [](C33_AfterDestroy)
C33_Witness ==
    \E c \in Pinned :
        /\ last.op = "pin_destroy" /\ last.c = c
        /\ h[c].st = "raw" /\ h[c].d = "Yes" /\ cell[c].st = "gone"
        /\ cell[c].is_some /\ HasDtor(c)
        /\ Runs(c, Cur(c)) = <<"cell">>

\* C34: an Option made into a ManualOption and back is the Option it was
\* (Some(v) gives Some(v), None gives None); the conversion to Option runs
\* no destructor and leaves the value, if there is one, owned by the
\* resulting Option; the drop glue of the ManualOption never runs, and the
\* value's destructor runs once, when the owner of the Option drops it.
C34_FromOption == \A c \in Pinned : h[c] = NoHandle /\ Cur(c) <= 1
C34_RoundTripStep ==
    \A c \in Pinned :
        (last.op = "init" /\ last'.op = "into_option" /\ last'.c = c) =>
            /\ last.res \in Options
            /\ last'.res = last.res
C34_ConvertStep ==
    \A c \in Pinned :
        (last'.op = "into_option" /\ last'.c = c /\ C34_FromOption) =>
            /\ (last'.res = "None") <=> ~ cell[c].is_some
            /\ ~ cell[c].is_some => vals' = vals
            /\ cell[c].is_some =>
                    /\ last'.res = vals[c][1].v
                    /\ vals[c][1].st = "stored"
                    /\ vals'[c][1] = [vals[c][1] EXCEPT !.st = "owned"]
                    /\ vals'[c][1].runs = << >>
            /\ cell'[c].st = "moved"
C34_Once ==
    \A c \in Pinned :
        (cell[c].st = "moved" /\ C34_FromOption) =>
            /\ vals[c][1].st \in {"unborn", "owned", "dead"}
            /\ vals[c][1].st = "owned" => Runs(c, 1) = << >>
            /\ vals[c][1].st = "dead" =>
                    Runs(c, 1) = IF HasDtor(c) THEN <<"owner">> ELSE << >>
C34_OptionRoundTrip ==
    /\ [][C34_RoundTripStep /\ C34_ConvertStep]_vars
    /\ [](C34_Once)
C34_Witness ==
    \E c \in Pinned :
        /\ last.op = "into_option" /\ last.c = c /\ last.res = "v1"
        /\ C34_FromOption /\ HasDtor(c)
        /\ cell[c].st = "moved" /\ vals[c][1].st = "owned" /\ Runs(c, 1) = << >>
====
